---- MODULE Spec2Model ----
(***************************************************************************)
(* Reconciliation of Check Point access layers and access rules.           *)
(*                                                                         *)
(* Models main() of checkpoint_access_layer.py and of                      *)
(* checkpoint_access_rule.py, together with publish() and install_policy() *)
(* of module_utils/network/checkpoint/checkpoint.py.  One behaviour is a   *)
(* series of invocations of one module against one remote object; the      *)
(* remote device is the only state that survives an invocation.            *)
(***************************************************************************)
EXTENDS Integers, Sequences, FiniteSets, TLC

VARIABLES
    kind,      \* which module runs: "layer" or "rule"
    params,    \* module.params of the current invocation
    remote,    \* the device: {} when the object is absent, {obj} when present
    pc,        \* position of main(): start, fetched, mutated, published,
               \* installed, done (exit_json called), crashed (exception)
    branch,    \* branch of main() taken: none, update, create, delete
    code,      \* main()'s variable code
    response,  \* main()'s variable response
    result,    \* main()'s variable result; what exit_json reports once done
    error,     \* the exception that ended the invocation, or None
    trace,     \* requests the invocation sent, in order, with their codes
    fetched,   \* history: code and response of the fetch of this invocation
    run,       \* number of the current invocation
    prev       \* history: how the previous invocation ended

vars == <<kind, params, remote, pc, branch, code, response, result, error,
          trace, fetched, run, prev>>

----------------------------------------------------------------------------
(* Bounds *)

MaxRuns == 2

----------------------------------------------------------------------------
(* Values *)

None == "None"

OK == 200
NotFound == 404
Fault == 500

Names == {"A", "B"}
Actions == {"Accept", "Drop"}
Positions == {"top", "bottom"}
States == {"present", "absent"}

LayerName == "new_layer"
RuleName == "Drop attacker"
RuleLayer == "Network"
Sid == "sid"
SessionUid == "session-uid"
DefaultEnabled == TRUE

\* Body of a response whose code is not 200.
ErrorBody(c) == [code |-> c, message |-> "error"]

----------------------------------------------------------------------------
(* module.params: one value per key of the argument_spec, and no other key *)

LayerParams ==
    [name : {LayerName}, enable_firewall_blade : BOOLEAN, shared : BOOLEAN,
     state : States, auto_publish_session : BOOLEAN,
     policy_package : {"standard"}, auto_install_policy : BOOLEAN]

RuleParams ==
    [name : {RuleName}, layer : {RuleLayer}, position : Positions,
     source : Names, destination : Names, action : Actions,
     enabled : BOOLEAN, state : States]

ParamsOf(k) == IF k = "layer" THEN LayerParams ELSE RuleParams

\* module.params[key] raises KeyError unless key is a key of module.params.
HasParam(p, key) == key \in DOMAIN p

\* The objects the device can hold, in the shape show-* returns them.
LayerObjects ==
    [name : {LayerName}, firewall : BOOLEAN, shared : BOOLEAN]

RuleObjects ==
    { [name |-> RuleName, layer |-> RuleLayer, position |-> pos,
       source |-> <<[name |-> s]>>, destination |-> <<[name |-> d]>>,
       action |-> [name |-> a], enabled |-> e] :
         pos \in Positions, s \in Names, d \in Names, a \in Actions,
         e \in BOOLEAN }

ObjectsOf(k) == IF k = "layer" THEN LayerObjects ELSE RuleObjects

----------------------------------------------------------------------------
(* The device behind connection.send_request *)

Exists(r) == r # {}
TheObject(r) == CHOOSE o \in r : TRUE

\* What the endpoint does: fetch, add, set, delete, publish, install-policy.
KindOf(ep) ==
    CASE ep \in {"/web_api/show-access-layer", "/web_api/show-access-rule"}
            -> "fetch"
      [] ep \in {"/web_api/add-access-layer", "/web_api/add-access-rule"}
            -> "add"
      [] ep \in {"/web_api/set-access-layer", "/web_api/set-access-rule"}
            -> "set"
      [] ep \in {"/web_api/delete-access-layer", "/web_api/delete-access-rule"}
            -> "delete"
      [] ep = "/web_api/publish" -> "publish"
      [] ep = "/web_api/install-policy" -> "install-policy"

\* Codes the device may answer a request with, given what it holds.
\* A fault is possible for every request; success needs the object to be
\* there (show, set, delete) or not to be there (add).
CodesFor(ep, r) ==
    CASE KindOf(ep) = "fetch" ->
            (IF Exists(r) THEN {OK} ELSE {NotFound}) \cup {Fault}
      [] KindOf(ep) = "add" ->
            (IF Exists(r) THEN {} ELSE {OK}) \cup {Fault}
      [] KindOf(ep) \in {"set", "delete"} ->
            (IF Exists(r) THEN {OK} ELSE {}) \cup {Fault}
      [] OTHER -> {OK, Fault}

\* The object an add or set request describes.
LayerFromPayload(payload) ==
    [name |-> payload.name, firewall |-> payload.firewall,
     shared |-> payload.shared]

RuleFromPayload(payload) ==
    [name |-> payload.name, layer |-> payload.layer,
     position |-> payload.position,
     source |-> <<[name |-> payload.source]>>,
     destination |-> <<[name |-> payload.destination]>>,
     action |-> [name |-> payload.action],
     enabled |-> IF "enabled" \in DOMAIN payload
                    THEN payload.enabled ELSE DefaultEnabled]

\* The device after a request answered with code c.
RemoteAfter(ep, payload, c, r) ==
    IF c # OK THEN r
    ELSE CASE ep \in {"/web_api/add-access-layer",
                      "/web_api/set-access-layer"}
                 -> {LayerFromPayload(payload)}
           [] ep \in {"/web_api/add-access-rule",
                      "/web_api/set-access-rule"}
                 -> {RuleFromPayload(payload)}
           [] KindOf(ep) = "delete" -> {}
           [] OTHER -> r

\* The body of the response with code c, r2 being the device afterwards.
ResponseBody(ep, c, r2) ==
    IF c # OK THEN ErrorBody(c)
    ELSE IF KindOf(ep) \in {"fetch", "add", "set"} THEN TheObject(r2)
    ELSE [message |-> "OK"]

Request(ep, payload, c) == [ep |-> ep, payload |-> payload, code |-> c]

----------------------------------------------------------------------------
(* module_utils/network/checkpoint/checkpoint.py *)

\* What a Python object is: the Connection has send_request and get_sid,
\* the AnsibleModule has neither.
HasSendRequest(obj) == obj = "connection"

\* publish(connection, uid=None): the request it sends, or the exception it
\* raises because its first argument has no send_request.  A uid that is
\* an object is truthy, so get_sid is called for uid = None only.
publish(connection, uid) ==
    LET u == IF uid # None THEN uid ELSE Sid
    IN  IF HasSendRequest(connection)
        THEN [raises |-> None, ep |-> "/web_api/publish",
              payload |-> [uid |-> u]]
        ELSE [raises |-> "AttributeError", ep |-> None, payload |-> None]

\* install_policy(connection, policy_package, targets=None)
install_policy(connection, policy_package, targets) ==
    IF HasSendRequest(connection)
    THEN [raises |-> None, ep |-> "/web_api/install-policy",
          payload |-> [policy_package |-> policy_package,
                       targets |-> targets]]
    ELSE [raises |-> "AttributeError", ep |-> None, payload |-> None]

----------------------------------------------------------------------------
(* checkpoint_access_layer.py *)

get_access_layer_payload(p) == [name |-> p.name]

create_access_layer_payload(p) ==
    [name |-> p.name, firewall |-> p.enable_firewall_blade,
     shared |-> p.shared]

update_access_layer_payload(p) ==
    [name |-> p.name, firewall |-> p.enable_firewall_blade,
     shared |-> p.shared]

delete_access_layer_payload(p) == [name |-> p.name]

needs_update_layer(p, access_layer) ==
    \/ p.enable_firewall_blade # access_layer.shared
    \/ p.shared # access_layer.shared

----------------------------------------------------------------------------
(* checkpoint_access_rule.py *)

get_access_rule_payload(p) == [name |-> p.name, layer |-> p.layer]

create_access_rule_payload(p) ==
    [name |-> p.name, layer |-> p.layer, position |-> p.position,
     source |-> p.source, destination |-> p.destination,
     action |-> p.action]

update_access_rule_payload(p) ==
    [name |-> p.name, layer |-> p.layer, position |-> p.position,
     source |-> p.source, destination |-> p.destination,
     action |-> p.action, enabled |-> p.enabled]

delete_access_rule_payload(p) == [name |-> p.name, layer |-> p.layer]

\* needs_update comparing position as well.
needs_update_rule_WithPosition(p, access_rule) ==
    \/ p.source # access_rule.source[1].name
    \/ p.destination # access_rule.destination[1].name
    \/ p.action # access_rule.action.name
    \/ p.enabled # access_rule.enabled
    \/ p.position # access_rule.position

\* needs_update without its comparison of enabled.
needs_update_rule_NoEnabled(p, access_rule) ==
    \/ p.source # access_rule.source[1].name
    \/ p.destination # access_rule.destination[1].name
    \/ p.action # access_rule.action.name

needs_update_rule(p, access_rule) ==
    \/ p.source # access_rule.source[1].name
    \/ p.destination # access_rule.destination[1].name
    \/ p.action # access_rule.action.name
    \/ p.enabled # access_rule.enabled

----------------------------------------------------------------------------
(* One step of main(): a call of connection.send_request.  The device      *)
(* answers with one of the codes it can give and changes accordingly.      *)

\* send_request sending its request a second time.
Send_Retry(ep, payload, c) ==
    /\ c \in CodesFor(ep, remote)
    /\ remote' = RemoteAfter(ep, payload, c, remote)
    /\ trace' = trace \o <<Request(ep, payload, c), Request(ep, payload, c)>>

Send(ep, payload, c) ==
    /\ c \in CodesFor(ep, remote)
    /\ remote' = RemoteAfter(ep, payload, c, remote)
    /\ trace' = Append(trace, Request(ep, payload, c))

\* code, response = <function>(module, connection)
SendAndBind(ep, payload) ==
    \E c \in {OK, NotFound, Fault} :
        /\ Send(ep, payload, c)
        /\ code' = c
        /\ response' = ResponseBody(ep, c, remote')

\* An exception leaves main(): exit_json is never called.
Raise(exc) ==
    /\ pc' = "crashed"
    /\ error' = exc

----------------------------------------------------------------------------
(* main() of checkpoint_access_layer.py *)

\* code, response = get_access_layer(module, connection)
\* result = {'changed': False}
FetchLayer ==
    /\ kind = "layer"
    /\ pc = "start"
    /\ SendAndBind("/web_api/show-access-layer",
                   get_access_layer_payload(params))
    /\ fetched' = [code |-> code', response |-> response']
    /\ result' = [changed |-> FALSE]
    /\ pc' = "fetched"
    /\ UNCHANGED <<kind, params, branch, error, run, prev>>

\* main() deleting without looking at the code of the fetch.
LayerBranch_DeleteUnchecked(p, c, resp) ==
    IF p.state = "present"
    THEN IF c = OK
         THEN IF needs_update_layer(p, resp) THEN "update" ELSE "none"
         ELSE IF c = NotFound THEN "create" ELSE "none"
    ELSE "delete"

\* The branch of the if-statements of main() that the fetch selects.
LayerBranch(p, c, resp) ==
    IF p.state = "present"
    THEN IF c = OK
         THEN IF needs_update_layer(p, resp) THEN "update" ELSE "none"
         ELSE IF c = NotFound THEN "create" ELSE "none"
    ELSE IF c = OK THEN "delete" ELSE "none"

UpdateLayer ==
    /\ kind = "layer"
    /\ pc = "fetched"
    /\ LayerBranch(params, code, response) = "update"
    /\ SendAndBind("/web_api/set-access-layer",
                   update_access_layer_payload(params))
    /\ branch' = "update"
    /\ pc' = "mutated"
    /\ UNCHANGED <<kind, params, result, error, fetched, run, prev>>

CreateLayer ==
    /\ kind = "layer"
    /\ pc = "fetched"
    /\ LayerBranch(params, code, response) = "create"
    /\ SendAndBind("/web_api/add-access-layer",
                   create_access_layer_payload(params))
    /\ branch' = "create"
    /\ pc' = "mutated"
    /\ UNCHANGED <<kind, params, result, error, fetched, run, prev>>

DeleteLayer ==
    /\ kind = "layer"
    /\ pc = "fetched"
    /\ LayerBranch(params, code, response) = "delete"
    /\ SendAndBind("/web_api/delete-access-layer",
                   delete_access_layer_payload(params))
    /\ branch' = "delete"
    /\ pc' = "mutated"
    /\ UNCHANGED <<kind, params, result, error, fetched, run, prev>>

\* if module.params['auto_publish_session']: publish(connection)
PublishLayerGuard(p) == p.auto_publish_session

PublishLayer ==
    /\ kind = "layer"
    /\ pc = "mutated"
    /\ PublishLayerGuard(params)
    /\ LET call == publish("connection", None)
       IN  IF call.raises # None
           THEN Raise(call.raises) /\ UNCHANGED <<remote, trace>>
           ELSE /\ \E c \in {OK, Fault} : Send(call.ep, call.payload, c)
                /\ pc' = "published"
                /\ UNCHANGED error
    /\ UNCHANGED <<kind, params, branch, code, response, result, fetched,
                   run, prev>>

\* if module.params['auto_install_policy']:
\*     install_policy(connection, module.params['policy_package'],
\*                    module.params['targets'])
\* nested in the if of auto_publish_session.
InstallPolicyLayerGuard(p) == p.auto_install_policy

InstallPolicyLayer ==
    /\ kind = "layer"
    /\ pc = "published"
    /\ InstallPolicyLayerGuard(params)
    /\ IF ~ HasParam(params, "targets")
       THEN Raise("KeyError") /\ UNCHANGED <<remote, trace>>
       ELSE LET call == install_policy("connection", params.policy_package,
                                       params.targets)
            IN  /\ \E c \in {OK, Fault} : Send(call.ep, call.payload, c)
                /\ pc' = "installed"
                /\ UNCHANGED error
    /\ UNCHANGED <<kind, params, branch, code, response, result, fetched,
                   run, prev>>

\* main() has reached the two lines that end it.
AtExitLayer ==
    CASE pc = "fetched" -> LayerBranch(params, code, response) = "none"
      [] pc = "mutated" -> ~ PublishLayerGuard(params)
      [] pc = "published" -> ~ InstallPolicyLayerGuard(params)
      [] pc = "installed" -> TRUE
      [] OTHER -> FALSE

\* main() without result['changed'] = True in its deletion branch.
LayerResult_DeleteUnflagged(b, res, resp) ==
    LET r1 == IF b \in {"update", "create"}
              THEN [changed |-> TRUE, checkpoint_access_layers |-> resp]
              ELSE res
    IN  [k \in DOMAIN r1 \cup {"checkpoint_session_uid"} |->
            IF k = "checkpoint_session_uid" THEN SessionUid ELSE r1[k]]

\* The result main() has built when it reaches exit_json.
LayerResult(b, res, resp) ==
    LET r1 == IF b \in {"update", "create"}
              THEN [changed |-> TRUE, checkpoint_access_layers |-> resp]
              ELSE IF b = "delete" THEN [changed |-> TRUE]
              ELSE res
    IN  [k \in DOMAIN r1 \cup {"checkpoint_session_uid"} |->
            IF k = "checkpoint_session_uid" THEN SessionUid ELSE r1[k]]

\* result['checkpoint_session_uid'] = connection.get_session_uid()
\* module.exit_json(**result)
ExitLayer ==
    /\ kind = "layer"
    /\ AtExitLayer
    /\ result' = LayerResult(branch, result, response)
    /\ pc' = "done"
    /\ UNCHANGED <<kind, params, remote, branch, code, response, error,
                   trace, fetched, run, prev>>

----------------------------------------------------------------------------
(* main() of checkpoint_access_rule.py *)

FetchRule ==
    /\ kind = "rule"
    /\ pc = "start"
    /\ SendAndBind("/web_api/show-access-rule",
                   get_access_rule_payload(params))
    /\ fetched' = [code |-> code', response |-> response']
    /\ result' = [changed |-> FALSE]
    /\ pc' = "fetched"
    /\ UNCHANGED <<kind, params, branch, error, run, prev>>

RuleBranch(p, c, resp) ==
    IF p.state = "present"
    THEN IF c = OK
         THEN IF needs_update_rule(p, resp) THEN "update" ELSE "none"
         ELSE "create"
    ELSE IF c = OK THEN "delete" ELSE "none"

UpdateRule ==
    /\ kind = "rule"
    /\ pc = "fetched"
    /\ RuleBranch(params, code, response) = "update"
    /\ SendAndBind("/web_api/set-access-rule",
                   update_access_rule_payload(params))
    /\ branch' = "update"
    /\ pc' = "mutated"
    /\ UNCHANGED <<kind, params, result, error, fetched, run, prev>>

CreateRule ==
    /\ kind = "rule"
    /\ pc = "fetched"
    /\ RuleBranch(params, code, response) = "create"
    /\ SendAndBind("/web_api/add-access-rule",
                   create_access_rule_payload(params))
    /\ branch' = "create"
    /\ pc' = "mutated"
    /\ UNCHANGED <<kind, params, result, error, fetched, run, prev>>

DeleteRule ==
    /\ kind = "rule"
    /\ pc = "fetched"
    /\ RuleBranch(params, code, response) = "delete"
    /\ SendAndBind("/web_api/delete-access-rule",
                   delete_access_rule_payload(params))
    /\ branch' = "delete"
    /\ pc' = "mutated"
    /\ UNCHANGED <<kind, params, result, error, fetched, run, prev>>

\* publish(module, connection)
\* install_policy(module, connection)
\* The module is bound to the parameter connection, the connection to uid
\* and to policy_package.  Neither call takes a code from the device, and
\* neither request changes the object.
CommitRule ==
    /\ kind = "rule"
    /\ pc = "mutated"
    /\ LET pub == publish("module", "connection")
           ins == install_policy("module", "connection", None)
       IN  IF pub.raises # None
           THEN Raise(pub.raises) /\ UNCHANGED trace
           ELSE \E c1 \in {OK, Fault} :
                  IF ins.raises # None
                  THEN /\ Raise(ins.raises)
                       /\ trace' = Append(trace,
                                      Request(pub.ep, pub.payload, c1))
                  ELSE \E c2 \in {OK, Fault} :
                         /\ trace' = trace \o
                               <<Request(pub.ep, pub.payload, c1),
                                 Request(ins.ep, ins.payload, c2)>>
                         /\ pc' = "installed"
                         /\ UNCHANGED error
    /\ UNCHANGED <<kind, params, remote, branch, code, response, result,
                   fetched, run, prev>>

AtExitRule ==
    CASE pc = "fetched" -> RuleBranch(params, code, response) = "none"
      [] pc = "installed" -> TRUE
      [] OTHER -> FALSE

RuleResult(b, res, resp) ==
    IF b \in {"update", "create"}
    THEN [changed |-> TRUE, checkpoint_access_rules |-> resp]
    ELSE IF b = "delete" THEN [changed |-> TRUE]
    ELSE res

\* module.exit_json(**result)
ExitRule ==
    /\ kind = "rule"
    /\ AtExitRule
    /\ result' = RuleResult(branch, result, response)
    /\ pc' = "done"
    /\ UNCHANGED <<kind, params, remote, branch, code, response, error,
                   trace, fetched, run, prev>>

----------------------------------------------------------------------------
(* Invocations *)

NoResponse == [message |-> "none"]
NoFetch == [code |-> 0, response |-> NoResponse]
NoPrev == [done |-> FALSE, changed |-> FALSE, branch |-> "none",
           same |-> FALSE, faulted |-> FALSE]

\* The device answered a request of this invocation with a fault.
Faulted == \E i \in 1..Len(trace) : trace[i].code \notin {OK, NotFound}

Ended == pc \in {"done", "crashed"}

Init ==
    /\ kind \in {"layer", "rule"}
    /\ params \in ParamsOf(kind)
    /\ remote \in {{}} \cup {{o} : o \in ObjectsOf(kind)}
    /\ pc = "start"
    /\ branch = "none"
    /\ code = 0
    /\ response = NoResponse
    /\ result = [changed |-> FALSE]
    /\ error = None
    /\ trace = <<>>
    /\ fetched = NoFetch
    /\ run = 1
    /\ prev = NoPrev

\* The module is invoked again, with any parameters, against the device as
\* the invocation before left it.
NewRun ==
    /\ Ended
    /\ run < MaxRuns
    /\ run' = run + 1
    /\ params' \in ParamsOf(kind)
    /\ prev' = [done |-> pc = "done", changed |-> result.changed,
                branch |-> branch, same |-> params' = params,
                faulted |-> Faulted]
    /\ pc' = "start"
    /\ branch' = "none"
    /\ code' = 0
    /\ response' = NoResponse
    /\ result' = [changed |-> FALSE]
    /\ error' = None
    /\ trace' = <<>>
    /\ fetched' = NoFetch
    /\ UNCHANGED <<kind, remote>>

Next ==
    \/ FetchLayer \/ UpdateLayer \/ CreateLayer \/ DeleteLayer
    \/ PublishLayer \/ InstallPolicyLayer \/ ExitLayer
    \/ FetchRule \/ UpdateRule \/ CreateRule \/ DeleteRule
    \/ CommitRule \/ ExitRule
    \/ NewRun

Spec == Init /\ [][Next]_vars

----------------------------------------------------------------------------
(* Reading the trace *)

KindsSent == [i \in 1..Len(trace) |-> KindOf(trace[i].ep)]

Count(k) == Cardinality({i \in 1..Len(trace) : KindOf(trace[i].ep) = k})

Mutations == Count("add") + Count("set") + Count("delete")

Sent(k) == Count(k) > 0

TypeOK ==
    /\ kind \in {"layer", "rule"}
    /\ params \in ParamsOf(kind)
    /\ remote \subseteq ObjectsOf(kind)
    /\ Cardinality(remote) <= 1
    /\ pc \in {"start", "fetched", "mutated", "published", "installed",
               "done", "crashed"}
    /\ branch \in {"none", "update", "create", "delete"}
    /\ run \in 1..MaxRuns
    /\ result.changed \in BOOLEAN

----------------------------------------------------------------------------
(* The terms of the claims *)

Found == fetched.code = OK
NotFoundAtFetch == fetched.code = NotFound
Present == params.state = "present"
Absent == params.state = "absent"
Decided == pc \notin {"start", "fetched"}
Reported == pc = "done"

\* The commit flags of the invocation.  The access-rule module declares
\* neither flag and calls publish and install_policy unconditionally, which
\* is each flag at its documented default, true.
AutoPublish ==
    IF HasParam(params, "auto_publish_session")
    THEN params.auto_publish_session ELSE TRUE

AutoInstallPolicy ==
    IF HasParam(params, "auto_install_policy")
    THEN params.auto_install_policy ELSE TRUE

\* Some publish request was sent before some install-policy request.
PublishBeforeInstall ==
    \E i, j \in 1..Len(trace) :
        /\ i < j
        /\ KindOf(trace[i].ep) = "publish"
        /\ KindOf(trace[j].ep) = "install-policy"

\* The comparison main() makes of the desired fields with the fetched object.
ComparedFieldsMatch ==
    IF kind = "layer"
    THEN ~ needs_update_layer(params, fetched.response)
    ELSE ~ needs_update_rule(params, fetched.response)

NoChange == Found /\ Present /\ ComparedFieldsMatch
NoAction == NotFoundAtFetch /\ Absent

PayloadKey ==
    IF kind = "layer" THEN "checkpoint_access_layers"
    ELSE "checkpoint_access_rules"

----------------------------------------------------------------------------
(* Claims *)

\* C1. Idempotence: when an invocation has completed and the module is
\* invoked again with the same parameters against the device as the first
\* invocation left it, the second invocation reports changed = false.
\* Stated for invocations in which the device answers no request with a
\* fault.
C1_Idempotence ==
    (Reported /\ prev.done /\ prev.same /\ ~ prev.faulted /\ ~ Faulted)
        => result.changed = FALSE

\* C2. Commit ordering: an invocation in which a mutation occurs with
\* autoPublish and autoInstallPolicy set sends publish and, after it,
\* install-policy; an invocation with autoPublish unset sends no
\* install-policy.
C2_CommitOrdering ==
    /\ (Ended /\ Mutations > 0 /\ AutoPublish /\ AutoInstallPolicy)
          => PublishBeforeInstall
    /\ ~ AutoPublish => ~ Sent("install-policy")


C4_FetchFaultIsFatal ==
    (pc # "start" /\ ~ Found /\ ~ NotFoundAtFetch)
        => /\ Mutations = 0
           /\ ~ Sent("publish")
           /\ ~ Sent("install-policy")
           /\ ~ Reported

\* C5. Create-then-present: an invocation whose fetch reports not found
\* and whose requested existence is present ends having sent exactly one
\* add request, no set or delete request, and reporting changed = true.
C5_CreateThenPresent ==
    (Ended /\ NotFoundAtFetch /\ Present)
        => /\ Count("add") = 1
           /\ Count("set") = 0
           /\ Count("delete") = 0
           /\ Reported
           /\ result.changed = TRUE

\* C6. Delete-then-absent: an invocation that finds the object with
\* requested existence absent ends having sent exactly one delete request
\* and reporting changed = true; the invocation after it with the same
\* parameters, the object now being absent, sends nothing but its fetch and
\* reports changed = false.
C6_DeleteThenAbsent ==
    /\ (Ended /\ Found /\ Absent)
          => /\ Count("delete") = 1
             /\ Reported
             /\ result.changed = TRUE
    /\ (Ended /\ prev.branch = "delete" /\ prev.same /\ NotFoundAtFetch)
          => /\ Len(trace) = 1
             /\ Reported
             /\ result.changed = FALSE

\* C7. Field-sensitive update of access rules: for a found rule with
\* requested existence present, set-access-rule is sent exactly when the
\* desired source, destination, action or enabled differs from the fetched
\* source[0].name, destination[0].name, action.name or enabled; when all
\* four are equal no mutating request is sent and changed = false is
\* reported.
C7_FieldSensitiveUpdate ==
    (kind = "rule" /\ Decided /\ Found /\ Present)
        => LET r == fetched.response
               differs ==
                   \/ params.source # r.source[1].name
                   \/ params.destination # r.destination[1].name
                   \/ params.action # r.action.name
                   \/ params.enabled # r.enabled
           IN  /\ Sent("set") <=> differs
               /\ ~ differs => /\ Mutations = 0
                               /\ Reported
                               /\ result.changed = FALSE

\* A rule that differs from the desired one in its source only has been
\* updated.
C7_Witness ==
    /\ kind = "rule"
    /\ Decided
    /\ Found
    /\ Present
    /\ Sent("set")
    /\ params.source # fetched.response.source[1].name
    /\ params.destination = fetched.response.destination[1].name
    /\ params.action = fetched.response.action.name
    /\ params.enabled = fetched.response.enabled

\* The mutating request of the invocation was answered with a fault.
MutationFaulted ==
    \E i \in 1..Len(trace) :
        /\ KindOf(trace[i].ep) \in {"add", "set", "delete"}
        /\ trace[i].code # OK

C9_ChangedFlag ==
    Reported
        => /\ result.changed = TRUE <=> Mutations = 1
           /\ result.changed = FALSE <=> Mutations = 0

\* An invocation that deleted the object has reported changed = true.
C9_Witness ==
    /\ Reported
    /\ result.changed
    /\ Count("delete") = 1

\* C10. Result payload: every outcome report except that of an invocation
\* that deletes the object carries the payload named after the object kind;
\* so does the report of an invocation that finds the object, with requested
\* existence present, and changes nothing.  Stated for invocations in which
\* the device answers no request with a fault.
C10_ResultPayload ==
    (Reported /\ ~ Faulted /\ branch # "delete")
        => PayloadKey \in DOMAIN result

\* C11. Session identifier in the outcome: every outcome report carries the
\* session identifier of the invocation, whatever the decision.
C11_SessionIdInOutcome ==
    Reported
        => /\ "checkpoint_session_uid" \in DOMAIN result
           /\ result["checkpoint_session_uid"] = SessionUid

\* C12. Field-level comparison of access layers: for a found layer with
\* requested existence present, set-access-layer is sent exactly when the
\* desired enable_firewall_blade differs from the fetched firewall or the
\* desired shared differs from the fetched shared; when both are equal no
\* mutating request is sent.
C12_LayerFieldLevelComparison ==
    (kind = "layer" /\ Decided /\ Found /\ Present)
        => LET r == fetched.response
               differs ==
                   \/ params.enable_firewall_blade # r.firewall
                   \/ params.shared # r.shared
           IN  /\ Sent("set") <=> differs
               /\ ~ differs => Mutations = 0

\* The position in the trace of the mutating request of the invocation.
MutationAt ==
    CHOOSE i \in 1..Len(trace) :
        KindOf(trace[i].ep) \in {"add", "set", "delete"}

\* C13. What follows a mutation: in an invocation that has ended after a
\* mutating request, the request after the mutating one is publish when
\* autoPublish is set; when it is not set, no publish request was sent and
\* the mutating request is the last of the invocation.
C13_WhatFollowsMutation ==
    (Ended /\ Mutations > 0)
        => IF AutoPublish
           THEN /\ Len(trace) > MutationAt
                /\ KindOf(trace[MutationAt + 1].ep) = "publish"
           ELSE /\ ~ Sent("publish")
                /\ Len(trace) = MutationAt

\* The policy package the invocation is configured with; "standard" is the
\* default of checkpoint_argument_spec.
PolicyPackage ==
    IF HasParam(params, "policy_package")
    THEN params.policy_package ELSE "standard"

\* The targets the invocation is configured with; None when unspecified.
Targets ==
    IF HasParam(params, "targets") THEN params.targets ELSE None

\* C14. Install-policy is issued: an invocation in which a mutation occurs
\* with autoPublish and autoInstallPolicy set ends having sent one
\* install-policy request, whose payload carries the configured
\* policy package and targets.
C14_InstallPolicyIssued ==
    (Ended /\ Mutations > 0 /\ AutoPublish /\ AutoInstallPolicy)
        => /\ Count("install-policy") = 1
           /\ \A i \in 1..Len(trace) :
                KindOf(trace[i].ep) = "install-policy"
                    => /\ trace[i].payload.policy_package = PolicyPackage
                       /\ trace[i].payload.targets = Targets

\* The publish request of the invocation was answered with a fault.
PublishFaulted ==
    \E i \in 1..Len(trace) :
        /\ KindOf(trace[i].ep) = "publish"
        /\ trace[i].code # OK

\* C15. Publish failure does not suppress install-policy: an invocation in
\* which a mutation occurred with autoPublish and autoInstallPolicy set and
\* whose publish request failed ends having sent an install-policy request
\* after the publish.
C15_PublishFailureKeepsInstall ==
    (Ended /\ Mutations > 0 /\ AutoPublish /\ AutoInstallPolicy
        /\ PublishFaulted)
        => PublishBeforeInstall

\* The desired field set of the object kind, as a request payload carries
\* it, and its identity fields.
DesiredPayload ==
    IF kind = "layer"
    THEN [name |-> params.name, firewall |-> params.enable_firewall_blade,
          shared |-> params.shared]
    ELSE [name |-> params.name, layer |-> params.layer,
          position |-> params.position, source |-> params.source,
          destination |-> params.destination, action |-> params.action,
          enabled |-> params.enabled]

IdentityPayload ==
    IF kind = "layer"
    THEN [name |-> params.name]
    ELSE [name |-> params.name, layer |-> params.layer]

\* C16. Request payload projection: every add and every set request carries
\* the full desired field set of the object kind, every delete request the
\* identity fields only.
C16_PayloadProjection ==
    \A i \in 1..Len(trace) :
        /\ KindOf(trace[i].ep) \in {"add", "set"}
              => trace[i].payload = DesiredPayload
        /\ KindOf(trace[i].ep) = "delete"
              => trace[i].payload = IdentityPayload

----------------------------------------------------------------------------
(* The two drivers as functions of the abstract inputs: the code of the    *)
(* fetch, the result of the field comparison, the requested existence and  *)
(* the commit flags.                                                       *)

\* main() of checkpoint_access_layer.py: the kinds of request it sends, in
\* order, whether it reaches exit_json, and the changed it reports.
LayerDriver(c, differs, present, ap, ai) ==
    LET b == IF present
             THEN IF c = OK THEN (IF differs THEN "set" ELSE "none")
                  ELSE IF c = NotFound THEN "add" ELSE "none"
             ELSE IF c = OK THEN "delete" ELSE "none"
        pub == publish("connection", None)
        published == b # "none" /\ ap /\ pub.raises = None
        declared == \A p \in LayerParams : HasParam(p, "targets")
        installed == published /\ ai /\ declared
        raised == \/ b # "none" /\ ap /\ pub.raises # None
                  \/ published /\ ai /\ ~ declared
    IN  [kinds |-> <<"fetch">>
                     \o (IF b # "none" THEN <<b>> ELSE <<>>)
                     \o (IF published THEN <<"publish">> ELSE <<>>)
                     \o (IF installed THEN <<"install-policy">> ELSE <<>>),
         reported |-> ~ raised,
         changed |-> ~ raised /\ b # "none"]

\* main() of checkpoint_access_rule.py: it reads neither commit flag.
RuleDriver(c, differs, present, ap, ai) ==
    LET b == IF present
             THEN IF c = OK THEN (IF differs THEN "set" ELSE "none")
                  ELSE "add"
             ELSE IF c = OK THEN "delete" ELSE "none"
        pub == publish("module", "connection")
        ins == install_policy("module", "connection", None)
        published == b # "none" /\ pub.raises = None
        installed == published /\ ins.raises = None
        raised == b # "none" /\ ~ installed
    IN  [kinds |-> <<"fetch">>
                     \o (IF b # "none" THEN <<b>> ELSE <<>>)
                     \o (IF published THEN <<"publish">> ELSE <<>>)
                     \o (IF installed THEN <<"install-policy">> ELSE <<>>),
         reported |-> ~ raised,
         changed |-> ~ raised /\ b # "none"]

\* What the invocation sent and reported, and the abstract inputs it had.
Outcome ==
    [kinds |-> KindsSent, reported |-> Reported,
     changed |-> Reported /\ result.changed]

FieldsDiffer == Found /\ ~ ComparedFieldsMatch

\* Each driver function is what its main() does: the outcome of every ended
\* invocation is the one the function of its module gives.
DriverIsMain ==
    Ended =>
        Outcome = IF kind = "layer"
                  THEN LayerDriver(fetched.code, FieldsDiffer, Present,
                                   AutoPublish, AutoInstallPolicy)
                  ELSE RuleDriver(fetched.code, FieldsDiffer, Present,
                                  AutoPublish, AutoInstallPolicy)

\* C18. One generic reconciler for both kinds: on the abstract inputs of
\* any ended invocation the access-layer driver and the access-rule driver
\* send the same sequence of request kinds and report the same changed, and
\* that is what the invocation sent and reported.
C18_OneGenericReconciler ==
    Ended =>
        /\ Outcome = LayerDriver(fetched.code, FieldsDiffer, Present,
                                 AutoPublish, AutoInstallPolicy)
        /\ Outcome = RuleDriver(fetched.code, FieldsDiffer, Present,
                                AutoPublish, AutoInstallPolicy)

\* A found rule, requested present, that differs from the desired one in
\* its position and in none of source, destination, action and enabled.
PositionOnlyDiffers ==
    /\ kind = "rule"
    /\ Decided
    /\ Found
    /\ Present
    /\ params.position # fetched.response.position
    /\ params.source = fetched.response.source[1].name
    /\ params.destination = fetched.response.destination[1].name
    /\ params.action = fetched.response.action.name
    /\ params.enabled = fetched.response.enabled

\* C19, as claimed. Position takes part in the comparison of access rules:
\* when only the position differs the decision is Update.
C19_PositionCompared ==
    PositionOnlyDiffers => Sent("set")

\* C19, amended. Position takes no part in the comparison of access rules:
\* when only the position differs the decision is NoChange, no mutating
\* request is sent and changed = false is reported.
C19_PositionNotCompared ==
    PositionOnlyDiffers
        => /\ Mutations = 0
           /\ Reported
           /\ result.changed = FALSE

\* An invocation has reported on a rule that differs in its position only.
C19_Witness ==
    /\ PositionOnlyDiffers
    /\ Reported

\* C20. Every invocation ends with an outcome report: an invocation whose
\* fetch is answered 200 or 404, every request of which is answered, ends
\* by calling exit_json, never by an exception raised for an unknown
\* parameter or a wrongly bound argument of publish or install_policy.
C20_EndsWithOutcomeReport ==
    (Ended /\ (Found \/ NotFoundAtFetch))
        => /\ Reported
           /\ error = None

====
